---- MODULE Spec2Model ----
(***************************************************************************)
(* heredity.py: exact inference over a family pedigree by enumeration.     *)
(*                                                                         *)
(* Numbers.  The program computes with floats; the properties are about    *)
(* exact arithmetic, so every probability is an exact number.  A factor of *)
(* the joint probability is a decimal n / 100^e with machine integers n    *)
(* and e.  Products, sums and quotients of probabilities are rationals     *)
(* num / (den * 100^exp) whose num and den are naturals of any size        *)
(* (little-endian sequences of limbs, no leading zero limb, << >> is       *)
(* zero).  den = 0 stands for what numpy's division by a zero scalar       *)
(* returns: nan for 0/0 and inf for x/0.                                   *)
(*                                                                         *)
(* Names.  A person's name is a positive integer; None is 0 for a missing  *)
(* parent.  An optional trait is a set: {} for None, {TRUE}, {FALSE}.      *)
(* Dictionaries iterate in ascending name order, and list(s) of a set s    *)
(* lists it in ascending order.                                            *)
(***************************************************************************)
EXTENDS Integers, Sequences, FiniteSets, TLC

\* Largest population enumerated.
MaxPeople == 3
\* Largest accumulated value in a table handed directly to normalize.
MaxBucket == 2

(***************************************************************************)
(* Arbitrary-size naturals                                                 *)
(***************************************************************************)
Base == 10 * 10 * 10

RECURSIVE MulCarry(_, _, _)
\* a * k + c, for a machine integer 0 < k and a carry c
MulCarry(a, k, c) ==
    IF a = << >>
    THEN IF c = 0 THEN << >> ELSE << c % Base >> \o MulCarry(<< >>, k, c \div Base)
    ELSE LET t == Head(a) * k + c
         IN  << t % Base >> \o MulCarry(Tail(a), k, t \div Base)

BigOfInt(n) == MulCarry(<< >>, 1, n)

BigMulSmall(a, k) == IF k = 0 THEN << >> ELSE MulCarry(a, k, 0)

RECURSIVE AddCarry(_, _, _)
AddCarry(a, b, c) ==
    IF a = << >> /\ b = << >>
    THEN IF c = 0 THEN << >> ELSE << c >>
    ELSE LET x == IF a = << >> THEN 0 ELSE Head(a)
             y == IF b = << >> THEN 0 ELSE Head(b)
             t == x + y + c
         IN  << t % Base >> \o
             AddCarry(IF a = << >> THEN a ELSE Tail(a),
                      IF b = << >> THEN b ELSE Tail(b), t \div Base)

BigAdd(a, b) == AddCarry(a, b, 0)

RECURSIVE BigMul(_, _)
BigMul(a, b) ==
    IF a = << >> \/ b = << >> THEN << >>
    ELSE IF a = << 1 >> THEN b
    ELSE IF b = << 1 >> THEN a
    ELSE LET rest == BigMul(Tail(a), b)
         IN  BigAdd(BigMulSmall(b, Head(a)),
                    IF rest = << >> THEN << >> ELSE << 0 >> \o rest)

RECURSIVE BigLess(_, _)
BigLess(a, b) ==
    IF Len(a) # Len(b) THEN Len(a) < Len(b)
    ELSE IF a = << >> THEN FALSE
    ELSE LET n == Len(a)
         IN  IF a[n] # b[n] THEN a[n] < b[n]
             ELSE BigLess(SubSeq(a, 1, n - 1), SubSeq(b, 1, n - 1))

BigLeq(a, b) == a = b \/ BigLess(a, b)

(***************************************************************************)
(* Decimals: n / 100^e for machine integers n and e.  A factor of the      *)
(* joint probability (a constant, a difference, a product or a sum of a    *)
(* few) fits one.                                                          *)
(***************************************************************************)
Scale == 10 * 10

RECURSIVE Pow(_, _)
Pow(b, e) == IF e = 0 THEN 1 ELSE b * Pow(b, e - 1)

Max(x, y) == IF x < y THEN y ELSE x

Dec(n, e) == [n |-> n, e |-> e]

\* the numerator of a written with exponent e >= a.e
DecAt(a, e) == a.n * Pow(Scale, e - a.e)

DecAdd(a, b) == Dec(DecAt(a, Max(a.e, b.e)) + DecAt(b, Max(a.e, b.e)), Max(a.e, b.e))

DecSub(a, b) == Dec(DecAt(a, Max(a.e, b.e)) - DecAt(b, Max(a.e, b.e)), Max(a.e, b.e))

DecMul(a, b) == Dec(a.n * b.n, a.e + b.e)

DecOne == Dec(1, 0)

(***************************************************************************)
(* Exact rationals: num / (den * 100^exp).  Products and sums of           *)
(* probabilities have den = 1; quotients have exp = 0.                     *)
(***************************************************************************)
RatOfDec(d) == [num |-> BigOfInt(d.n), den |-> << 1 >>, exp |-> d.e]

Zero == RatOfDec(Dec(0, 0))
One == RatOfDec(DecOne)

IsFinite(a) == a.den # << >>

IsZero(a) == IsFinite(a) /\ a.num = << >>

RECURSIVE ScaleUp(_, _)
\* x * 100^k
ScaleUp(x, k) == IF k = 0 THEN x ELSE ScaleUp(BigMulSmall(x, Scale), k - 1)

\* a and b as two numerators over one common denominator
Over(a, b) == BigMul(ScaleUp(a.num, Max(a.exp, b.exp) - a.exp), b.den)

\* a = b as numbers (both finite)
RatEq(a, b) ==
    /\ IsFinite(a) /\ IsFinite(b)
    /\ IF a.den = b.den /\ a.exp = b.exp THEN a.num = b.num
       ELSE Over(a, b) = Over(b, a)

\* a <= b as numbers (both finite)
RatLeq(a, b) ==
    /\ IsFinite(a) /\ IsFinite(b)
    /\ IF a.den = b.den /\ a.exp = b.exp THEN BigLeq(a.num, b.num)
       ELSE BigLeq(Over(a, b), Over(b, a))

RatAdd(a, b) ==
    IF a.den = b.den
    THEN [num |-> BigAdd(ScaleUp(a.num, Max(a.exp, b.exp) - a.exp),
                         ScaleUp(b.num, Max(a.exp, b.exp) - b.exp)),
          den |-> a.den, exp |-> Max(a.exp, b.exp)]
    ELSE [num |-> BigAdd(Over(a, b), Over(b, a)),
          den |-> BigMul(a.den, b.den), exp |-> Max(a.exp, b.exp)]

\* a * d for a decimal d
RatMulDec(a, d) == [num |-> BigMulSmall(a.num, d.n), den |-> a.den, exp |-> a.exp + d.e]

\* a / b as numpy divides: a zero divisor gives nan (0/0) or inf (x/0), both
\* with den = 0, and raises nothing
RatDiv(a, b) == [num |-> Over(a, b), den |-> Over(b, a), exp |-> 0]

(***************************************************************************)
(* Model constants (heredity.py, PROBS), in hundredths                     *)
(***************************************************************************)
PROBS ==
    [gene     |-> [g \in 0..2 |->
                     IF g = 2 THEN Dec(1, 1)
                     ELSE IF g = 1 THEN Dec(3, 1) ELSE Dec(96, 1)],
     trait    |-> [g \in 0..2 |-> [t \in BOOLEAN |->
                     IF g = 2 THEN (IF t THEN Dec(65, 1) ELSE Dec(35, 1))
                     ELSE IF g = 1 THEN (IF t THEN Dec(56, 1) ELSE Dec(44, 1))
                     ELSE (IF t THEN Dec(1, 1) ELSE Dec(99, 1))]],
     mutation |-> Dec(1, 1)]

\* 0.5
Half == Dec(50, 1)

(***************************************************************************)
(* The population records load_data returns                                *)
(***************************************************************************)
None == 0

\* (father, mother) of the last of n people: both None, or the first two
\* people in either order
ParentPairs(n) ==
    IF n < 3 THEN { << None, None >> }
    ELSE { << None, None >>, << 1, 2 >>, << 2, 1 >> }

TraitColumn == { {}, {TRUE}, {FALSE} }

\* The populations of n people: everyone is a founder, except that the last
\* person may be the child of the first two; every trait is known or not.
PopulationsOf(n) ==
    { [k \in 1..n |->
         [name   |-> k,
          mother |-> IF k = n THEN par[2] ELSE None,
          father |-> IF k = n THEN par[1] ELSE None,
          trait  |-> tr[k]]] :
      par \in ParentPairs(n), tr \in [1..n -> TraitColumn] }

Populations == UNION { PopulationsOf(n) : n \in 0..MaxPeople }

(***************************************************************************)
(* Helpers                                                                 *)
(***************************************************************************)
Min(s) == CHOOSE x \in s : \A y \in s : x <= y

RECURSIVE ListOf(_)
\* list(s)
ListOf(s) == IF s = {} THEN << >> ELSE << Min(s) >> \o ListOf(s \ {Min(s)})

RECURSIVE prepend(_, _)
\* x put into each set of the sequence ss
prepend(x, ss) ==
    IF ss = << >> THEN << >> ELSE << {x} \cup Head(ss) >> \o prepend(x, Tail(ss))

RECURSIVE combinations(_, _)
\* itertools.combinations(l, r), each tuple as the set powerset makes of it
combinations(l, r) ==
    IF r = 0 THEN << {} >>
    ELSE IF Len(l) < r THEN << >>
    ELSE prepend(Head(l), combinations(Tail(l), r - 1)) \o combinations(Tail(l), r)

RECURSIVE chain(_, _, _)
\* the combinations of sizes r .. last, chained
chain(l, r, last) ==
    IF r > last THEN << >> ELSE combinations(l, r) \o chain(l, r + 1, last)

powerset(s) == chain(ListOf(s), 0, Cardinality(s))

\* powerset(s) of every set of names, tabulated once
Subsets == [s \in SUBSET (1..MaxPeople) |-> powerset(s)] @@ << >>

\* get_number_genes with the two answers exchanged
get_number_genes_swapped(person, one_gene, two_genes) ==
    IF person \in one_gene THEN 2
    ELSE IF person \in two_genes THEN 1
    ELSE 0

get_number_genes(person, one_gene, two_genes) ==
    IF person \in one_gene THEN 1
    ELSE IF person \in two_genes THEN 2
    ELSE 0

\* prob_of_passing without the mutation of a parent who has two copies
prob_of_passing_certain(numGenes) ==
    IF numGenes = 0 THEN PROBS.mutation
    ELSE IF numGenes = 1 THEN Half
    ELSE DecOne

prob_of_passing(numGenes) ==
    IF numGenes = 0 THEN PROBS.mutation
    ELSE IF numGenes = 1 THEN Half
    ELSE DecSub(DecOne, PROBS.mutation)

\* childProbGenes counting one copy only when it comes from the mother
childProbGenes_oneway(ownGenes, fatherProb, motherProb) ==
    IF ownGenes = 0
    THEN DecMul(DecSub(DecOne, fatherProb), DecSub(DecOne, motherProb))
    ELSE IF ownGenes = 1
    THEN DecMul(motherProb, DecSub(DecOne, fatherProb))
    ELSE DecMul(motherProb, fatherProb)

\* heredity.py 177-182: the probability of a child's own gene count
childProbGenes(ownGenes, fatherProb, motherProb) ==
    IF ownGenes = 0
    THEN DecMul(DecSub(DecOne, fatherProb), DecSub(DecOne, motherProb))
    ELSE IF ownGenes = 1
    THEN DecAdd(DecMul(motherProb, DecSub(DecOne, fatherProb)),
                DecMul(fatherProb, DecSub(DecOne, motherProb)))
    ELSE DecMul(motherProb, fatherProb)

\* probGenes that looks the prior up without the person's own gene count
probGenes_noprior(person, one_gene, two_genes) ==
    LET ownGenes == get_number_genes(person.name, one_gene, two_genes)
    IN  IF person.mother = None /\ person.father = None
        THEN PROBS.gene[0]
        ELSE childProbGenes(ownGenes,
                            prob_of_passing(get_number_genes(person.father, one_gene, two_genes)),
                            prob_of_passing(get_number_genes(person.mother, one_gene, two_genes)))

\* heredity.py 164-182: probGenes of one person
probGenes(person, one_gene, two_genes) ==
    LET ownGenes == get_number_genes(person.name, one_gene, two_genes)
    IN  IF person.mother = None /\ person.father = None
        THEN PROBS.gene[ownGenes]
        ELSE LET fatherGenes == get_number_genes(person.father, one_gene, two_genes)
                 motherGenes == get_number_genes(person.mother, one_gene, two_genes)
                 fatherProb == prob_of_passing(fatherGenes)
                 motherProb == prob_of_passing(motherGenes)
             IN  childProbGenes(ownGenes, fatherProb, motherProb)

\* probTrait that reads the trait=True entry for everyone
probTrait_true(person, one_gene, two_genes, have_trait) ==
    PROBS.trait[get_number_genes(person.name, one_gene, two_genes)][TRUE]

\* heredity.py 184-187: probTrait of one person
probTrait(person, one_gene, two_genes, have_trait) ==
    LET ownGenes == get_number_genes(person.name, one_gene, two_genes)
    IN  IF person.name \in have_trait
        THEN PROBS.trait[ownGenes][TRUE]
        ELSE PROBS.trait[ownGenes][FALSE]

RECURSIVE jointLoop(_, _, _, _, _, _)
\* the loop of joint_probability over the items keys, probJoint so far
jointLoop(ppl, keys, one_gene, two_genes, have_trait, probJoint) ==
    IF keys = << >> THEN probJoint
    ELSE LET person == ppl[Head(keys)]
         IN  jointLoop(ppl, Tail(keys), one_gene, two_genes, have_trait,
                       RatMulDec(probJoint,
                                 DecMul(probGenes(person, one_gene, two_genes),
                                        probTrait(person, one_gene, two_genes, have_trait))))

joint_probability(ppl, one_gene, two_genes, have_trait) ==
    jointLoop(ppl, ListOf(DOMAIN ppl), one_gene, two_genes, have_trait, One)

\* update with the two trait buckets exchanged
update_swapped(probs, one_gene, two_genes, have_trait, q) ==
    [person \in DOMAIN probs |->
        LET ownGenes == get_number_genes(person, one_gene, two_genes)
            trait == person \in have_trait
        IN  [gene  |-> [g \in 0..2 |->
                          IF g = ownGenes THEN RatAdd(probs[person].gene[g], q)
                          ELSE probs[person].gene[g]],
             trait |-> [t \in BOOLEAN |->
                          IF t # trait THEN RatAdd(probs[person].trait[t], q)
                          ELSE probs[person].trait[t]]]]

\* update without the else branch: nothing is added to the False bucket
update_noelse(probs, one_gene, two_genes, have_trait, q) ==
    [person \in DOMAIN probs |->
        LET ownGenes == get_number_genes(person, one_gene, two_genes)
            trait == person \in have_trait
        IN  [gene  |-> [g \in 0..2 |->
                          IF g = ownGenes THEN RatAdd(probs[person].gene[g], q)
                          ELSE probs[person].gene[g]],
             trait |-> [t \in BOOLEAN |->
                          IF t = trait /\ t THEN RatAdd(probs[person].trait[t], q)
                          ELSE probs[person].trait[t]]]]

update(probs, one_gene, two_genes, have_trait, q) ==
    [person \in DOMAIN probs |->
        LET ownGenes == get_number_genes(person, one_gene, two_genes)
            trait == person \in have_trait
        IN  [gene  |-> [g \in 0..2 |->
                          IF g = ownGenes THEN RatAdd(probs[person].gene[g], q)
                          ELSE probs[person].gene[g]],
             trait |-> [t \in BOOLEAN |->
                          IF t = trait THEN RatAdd(probs[person].trait[t], q)
                          ELSE probs[person].trait[t]]]]

RECURSIVE npsum(_, _)
\* np.sum(list(d.values())) over the keys ks of d
npsum(d, ks) ==
    IF ks = {} THEN Zero
    ELSE LET k == CHOOSE x \in ks : TRUE
         IN  RatAdd(d[k], npsum(d, ks \ {k}))

\* norm_dict dividing by the number of values instead of their sum
norm_dict_count(d) ==
    [a \in DOMAIN d |-> RatDiv(d[a], RatOfDec(Dec(Cardinality(DOMAIN d), 0)))]

norm_dict(d) ==
    LET total == npsum(d, DOMAIN d)
    IN  [a \in DOMAIN d |-> RatDiv(d[a], total)]

normalize(probs) ==
    [person \in DOMAIN probs |->
        [gene  |-> norm_dict(probs[person].gene),
         trait |-> norm_dict(probs[person].trait)]]

\* fails_evidence with `trait is not None` written as the truth of trait:
\* a known False is taken for unknown
fails_evidence_truthy(ppl, have_trait) ==
    \E person \in DOMAIN ppl :
        /\ ppl[person].trait = {TRUE}
        /\ ppl[person].trait # {person \in have_trait}

\* heredity.py 69-73
fails_evidence(ppl, have_trait) ==
    \E person \in DOMAIN ppl :
        /\ ppl[person].trait # {}
        /\ ppl[person].trait # {person \in have_trait}

(***************************************************************************)
(* main                                                                    *)
(***************************************************************************)
VARIABLES
    people,         \* the population load_data returned
    probabilities,  \* the table of running totals, then of posteriors
    hi, oi, ti,     \* positions of the three loops in their powersets
    pc,             \* "enumerate", "normalize" (loops done), "done"; "error" is
                    \* an exception ending main, which no step raises
    p,              \* the joint probability last computed
    trace,          \* history: the hypotheses passed to joint_probability and update
    sumP            \* history: the sum of the joint probabilities computed

vars == << people, probabilities, hi, oi, ti, pc, p, trace, sumP >>

names == DOMAIN people

\* heredity.py 49-62
ZeroTable(ppl) ==
    [person \in DOMAIN ppl |->
        [gene |-> [g \in 0..2 |-> Zero], trait |-> [t \in BOOLEAN |-> Zero]]]

Init ==
    /\ people \in Populations
    /\ probabilities = ZeroTable(people)
    /\ hi = 1 /\ oi = 1 /\ ti = 1
    /\ pc = "enumerate"
    /\ p = Zero
    /\ trace = << >>
    /\ sumP = Zero

have_trait == Subsets[names][hi]
one_gene == Subsets[names][oi]
two_genes == Subsets[names \ one_gene][ti]

\* The have_trait loop moves on to its next set, or ends.
NextHaveTrait ==
    /\ hi' = hi + 1 /\ oi' = 1 /\ ti' = 1
    /\ pc' = IF hi + 1 > Len(Subsets[names]) THEN "normalize" ELSE "enumerate"

\* heredity.py 66-75: a set that violates the known traits is skipped
Skip ==
    /\ pc = "enumerate"
    /\ fails_evidence(people, have_trait)
    /\ NextHaveTrait
    /\ UNCHANGED << people, probabilities, p, trace, sumP >>

\* heredity.py 78-83: one pass of the innermost loop body, and the loops' advance
Score ==
    /\ pc = "enumerate"
    /\ ~fails_evidence(people, have_trait)
    /\ p' = joint_probability(people, one_gene, two_genes, have_trait)
    /\ probabilities' = update(probabilities, one_gene, two_genes, have_trait, p')
    /\ sumP' = RatAdd(sumP, p')
    /\ trace' = Append(trace, << have_trait, one_gene, two_genes >>)
    /\ IF ti < Len(Subsets[names \ one_gene])
       THEN ti' = ti + 1 /\ UNCHANGED << hi, oi, pc >>
       ELSE IF oi < Len(Subsets[names])
       THEN oi' = oi + 1 /\ ti' = 1 /\ UNCHANGED << hi, pc >>
       ELSE NextHaveTrait
    /\ UNCHANGED people

\* heredity.py 86
Normalize ==
    /\ pc = "normalize"
    /\ probabilities' = normalize(probabilities)
    /\ pc' = "done"
    /\ UNCHANGED << people, hi, oi, ti, p, trace, sumP >>

Next == Skip \/ Score \/ Normalize

Spec == Init /\ [][Next]_vars

(***************************************************************************)
(* normalize on its own, applied to a table of small accumulated totals    *)
(***************************************************************************)
Buckets == { RatOfDec(Dec(v, 0)) : v \in 0..MaxBucket }

Founder(k) == [name |-> k, mother |-> None, father |-> None, trait |-> {}]

InitNormalize ==
    /\ people = [k \in {1} |-> Founder(k)]
    /\ probabilities \in [{1} -> [gene : [0..2 -> Buckets], trait : [BOOLEAN -> Buckets]]]
    /\ hi = 1 /\ oi = 1 /\ ti = 1
    /\ pc = "normalize"
    /\ p = Zero
    /\ trace = << >>
    /\ sumP = Zero

SpecNormalize == InitNormalize /\ [][Normalize]_vars

(***************************************************************************)
(* Properties                                                              *)
(***************************************************************************)
\* the hypothesis last passed to joint_probability and update, as the triple
\* (have_trait, one_gene, two_genes)
Last == trace[Len(trace)]

Unknown == { k \in names : people[k].trait = {} }

\* the gene count a hypothesis h assigns to person k
CountIn(k, h) == IF k \in h[2] THEN 1 ELSE IF k \in h[3] THEN 2 ELSE 0

\* h agrees with every observed trait
Agrees(h) == \A k \in names : people[k].trait # {} => (k \in h[1]) \in people[k].trait

IsAdmissible(h) ==
    /\ h[1] \subseteq names /\ h[2] \subseteq names /\ h[3] \subseteq names
    /\ h[2] \cap h[3] = {}
    /\ Agrees(h)

Admissible ==
    { h \in (SUBSET names) \X (SUBSET names) \X (SUBSET names) : IsAdmissible(h) }

\* C1: the hypotheses main scores and accumulates are exactly the triples
\* (have_trait, one_gene, two_genes) of subsets of the population with
\* one_gene and two_genes disjoint and have_trait agreeing with every observed
\* trait; each is processed exactly once, none that contradicts an observation
\* is ever processed, and there are 2^u * 3^n of them.
C1_Enumeration ==
    /\ trace # << >> => IsAdmissible(Last)
    /\ pc # "enumerate" =>
          /\ { trace[i] : i \in DOMAIN trace } = Admissible
          /\ Len(trace) = Cardinality(Admissible)
          /\ Len(trace) = Pow(2, Cardinality(Unknown)) * Pow(3, Cardinality(names))

C1_Witness ==
    /\ pc = "done"
    /\ Cardinality(names) = 3
    /\ people[3].father = 1 /\ people[3].mother = 2
    /\ people[1].trait = {FALSE} /\ people[2].trait = {} /\ people[3].trait = {TRUE}
    /\ Len(trace) = 54

\* the probability that a parent with c copies passes the gene on
PassOf(c) ==
    IF c = 0 THEN PROBS.mutation
    ELSE IF c = 1 THEN Dec(50, 1)
    ELSE DecSub(DecOne, PROBS.mutation)

\* the gene term of person k under hypothesis h
GeneTerm(k, h) ==
    IF people[k].father = None
    THEN PROBS.gene[CountIn(k, h)]
    ELSE LET f == PassOf(CountIn(people[k].father, h))
             m == PassOf(CountIn(people[k].mother, h))
             c == CountIn(k, h)
         IN  IF c = 0 THEN DecMul(DecSub(DecOne, f), DecSub(DecOne, m))
             ELSE IF c = 1
             THEN DecAdd(DecMul(m, DecSub(DecOne, f)), DecMul(f, DecSub(DecOne, m)))
             ELSE DecMul(m, f)

\* whether hypothesis h gives person k the trait
HasTrait(k, h) == k \in h[1]

TraitTerm(k, h) == PROBS.trait[CountIn(k, h)][HasTrait(k, h)]

RECURSIVE ProductOver(_, _)
ProductOver(ks, h) ==
    IF ks = {} THEN One
    ELSE LET k == CHOOSE x \in ks : TRUE
         IN  RatMulDec(RatMulDec(ProductOver(ks \ {k}, h), GeneTerm(k, h)), TraitTerm(k, h))

DecEq(a, b) == DecAt(a, Max(a.e, b.e)) = DecAt(b, Max(a.e, b.e))

\* C2: joint_probability returns the product over all people of gene term
\* times trait term; a founder's gene term is the prior, a child's is
\* (1-f)(1-m), m(1-f)+f(1-m) or m*f for 0, 1 or 2 copies, with f and m the
\* parents' pass probabilities under the same hypothesis; for parents with
\* (0,0) copies these are 0.9801, 0.0198 and 0.0001.
C2_JointProduct ==
    trace # << >> =>
        /\ RatEq(p, ProductOver(names, Last))
        /\ \A k \in names :
              /\ people[k].father # None
              /\ CountIn(people[k].father, Last) = 0
              /\ CountIn(people[k].mother, Last) = 0
              => LET g == probGenes(people[k], Last[2], Last[3])
                 IN  /\ CountIn(k, Last) = 0 => DecEq(g, Dec(9801, 2))
                     /\ CountIn(k, Last) = 1 => DecEq(g, Dec(198, 2))
                     /\ CountIn(k, Last) = 2 => DecEq(g, Dec(1, 2))

C2_Witness ==
    /\ trace # << >>
    /\ Cardinality(names) = 3
    /\ people[3].father = 2 /\ people[3].mother = 1
    /\ Last = << {1, 3}, {3}, {1} >>
    /\ ~IsZero(p)

\* C3: for every person whose trait is observed, the bucket of the opposite
\* trait value is exactly 0 in every state of the enumeration and after
\* normalize.
C3_OppositeBucketZero ==
    \A k \in names :
        /\ people[k].trait = {TRUE} => IsZero(probabilities[k].trait[FALSE])
        /\ people[k].trait = {FALSE} => IsZero(probabilities[k].trait[TRUE])

C3_Witness ==
    /\ pc = "done"
    /\ \E k \in names : people[k].trait = {TRUE} /\ ~IsZero(probabilities[k].trait[TRUE])
    /\ \E k \in names : people[k].trait = {FALSE} /\ ~IsZero(probabilities[k].trait[FALSE])
    /\ \E k \in names : people[k].father # None

GeneSum(t, k) == RatAdd(RatAdd(t[k].gene[0], t[k].gene[1]), t[k].gene[2])

TraitSum(t, k) == RatAdd(t[k].trait[TRUE], t[k].trait[FALSE])

\* a * b
RatTimes(a, b) ==
    [num |-> BigMul(a.num, b.num), den |-> BigMul(a.den, b.den), exp |-> a.exp + b.exp]

\* C4: the step of normalize that ends main leaves every person's three
\* gene-count values summing to 1 and two trait values summing to 1, every
\* value non-negative and equal to its accumulated total divided by the sum
\* of its distribution's accumulated totals.
C4_Normalized ==
    [][pc = "normalize" =>
         \A k \in names :
            /\ RatEq(GeneSum(probabilities', k), One)
            /\ RatEq(TraitSum(probabilities', k), One)
            /\ \A g \in 0..2 :
                  /\ RatLeq(Zero, probabilities'[k].gene[g])
                  /\ RatEq(RatTimes(probabilities'[k].gene[g], GeneSum(probabilities, k)),
                           probabilities[k].gene[g])
            /\ \A t \in BOOLEAN :
                  /\ RatLeq(Zero, probabilities'[k].trait[t])
                  /\ RatEq(RatTimes(probabilities'[k].trait[t], TraitSum(probabilities, k)),
                           probabilities[k].trait[t])]_vars

C4_Witness ==
    /\ pc = "done"
    /\ Cardinality(names) = 3
    /\ people[3].father = 1
    /\ people[2].trait = {TRUE}
    /\ ~IsZero(probabilities[3].gene[2])

\* C5 as stated: for every valid population, whatever traits are observed,
\* the joint probabilities of the hypotheses main scores sum to 1.
C5_SumIsOne == pc # "enumerate" => RatEq(sumP, One)

\* C5, amended: for every valid population in which no trait is observed,
\* the joint probabilities of the hypotheses main scores sum to 1.
C5_SumIsOneUnobserved == (pc # "enumerate" /\ Unknown = names) => RatEq(sumP, One)

C5_Witness ==
    /\ pc = "normalize"
    /\ Cardinality(names) = 3
    /\ people[3].father = 1 /\ people[3].mother = 2
    /\ Unknown = names
    /\ Len(trace) = 216

\* the population of one person without parents and with unknown trait,
\* after main
SinglePersonDone ==
    pc = "done" /\ names = {1} /\ people[1].trait = {} /\ people[1].father = None

\* the gene-count posterior is the prior {0: 0.96, 1: 0.03, 2: 0.01}
SinglePersonGenes ==
    /\ RatEq(probabilities[1].gene[0], RatOfDec(Dec(96, 1)))
    /\ RatEq(probabilities[1].gene[1], RatOfDec(Dec(3, 1)))
    /\ RatEq(probabilities[1].gene[2], RatOfDec(Dec(1, 1)))

\* C6 as stated: for one person without parents and with unknown trait, main
\* yields the gene-count posterior {0: 0.96, 1: 0.03, 2: 0.01} and the trait
\* posterior True = 0.0365, False = 0.9635.
C6_SinglePerson ==
    SinglePersonDone =>
        /\ SinglePersonGenes
        /\ RatEq(probabilities[1].trait[TRUE], RatOfDec(Dec(365, 2)))
        /\ RatEq(probabilities[1].trait[FALSE], RatOfDec(Dec(9635, 2)))

\* C6, amended: the gene-count posterior is {0: 0.96, 1: 0.03, 2: 0.01} and
\* the trait posterior is True = 0.0329, False = 0.9671
\* (0.96*0.01 + 0.03*0.56 + 0.01*0.65 = 0.0329).
C6_SinglePersonAmended ==
    SinglePersonDone =>
        /\ SinglePersonGenes
        /\ RatEq(probabilities[1].trait[TRUE], RatOfDec(Dec(329, 2)))
        /\ RatEq(probabilities[1].trait[FALSE], RatOfDec(Dec(9671, 2)))

C6_Witness == SinglePersonDone /\ Len(trace) = 6

\* C7: for the parents' gene counts of every scored hypothesis (all 9 pairs
\* occur), the three child gene-count probabilities joint_probability
\* computes are non-negative and sum to exactly 1.
C7_ChildTermsSumToOne ==
    trace # << >> =>
        \A k \in names :
            people[k].father # None =>
                LET f == prob_of_passing(CountIn(people[k].father, Last))
                    m == prob_of_passing(CountIn(people[k].mother, Last))
                IN  /\ \A c \in 0..2 : childProbGenes(c, f, m).n >= 0
                    /\ DecEq(DecAdd(DecAdd(childProbGenes(0, f, m), childProbGenes(1, f, m)),
                                    childProbGenes(2, f, m)),
                             DecOne)

C7_Witness ==
    /\ trace # << >>
    /\ Cardinality(names) = 3
    /\ people[3].father = 1 /\ people[3].mother = 2
    /\ CountIn(1, Last) = 2 /\ CountIn(2, Last) = 1

\* some distribution of table t has accumulated total zero
HasZeroTotal(t) ==
    \E k \in DOMAIN t : IsZero(GeneSum(t, k)) \/ IsZero(TraitSum(t, k))

\* C8: normalize applied to a table in which some distribution has total
\* zero fails with a fatal error instead of returning a table.
C8_ZeroTotalIsFatal ==
    [][(pc = "normalize" /\ HasZeroTotal(probabilities)) => pc' = "error"]_vars

\* C9: one call of update adds exactly p, for every person, to the gene bucket
\* of that person's gene count and to the trait bucket of that person's
\* membership in have_trait, and leaves the person's other buckets unchanged;
\* p >= 0, so no bucket decreases.
C9_UpdateFrame ==
    [][Len(trace') = Len(trace) + 1 =>
         LET h == trace'[Len(trace')]
         IN  /\ RatLeq(Zero, p')
             /\ \A k \in names :
                   /\ \A g \in 0..2 :
                         /\ IF g = CountIn(k, h)
                            THEN RatEq(probabilities'[k].gene[g],
                                       RatAdd(probabilities[k].gene[g], p'))
                            ELSE probabilities'[k].gene[g] = probabilities[k].gene[g]
                         /\ RatLeq(probabilities[k].gene[g], probabilities'[k].gene[g])
                   /\ \A t \in BOOLEAN :
                         /\ IF t = HasTrait(k, h)
                            THEN RatEq(probabilities'[k].trait[t],
                                       RatAdd(probabilities[k].trait[t], p'))
                            ELSE probabilities'[k].trait[t] = probabilities[k].trait[t]
                         /\ RatLeq(probabilities[k].trait[t], probabilities'[k].trait[t])]_vars

C9_Witness ==
    /\ pc = "enumerate"
    /\ Cardinality(names) = 3
    /\ people[3].father = 2
    /\ Len(trace) = 10
    /\ ~IsZero(probabilities[1].gene[1])
    /\ IsZero(probabilities[2].gene[1])

\* C10: in every state of the enumeration, before normalize, every person's
\* three gene buckets and two trait buckets both sum to the sum of the joint
\* probabilities scored so far; once the enumeration has finished that sum is
\* strictly positive for a non-empty population.
C10_CommonTotal ==
    pc # "done" =>
        /\ \A k \in names :
              /\ RatEq(GeneSum(probabilities, k), TraitSum(probabilities, k))
              /\ RatEq(GeneSum(probabilities, k), sumP)
        /\ (pc = "normalize" /\ names # {}) => (IsFinite(sumP) /\ ~IsZero(sumP))

C10_Witness ==
    /\ pc = "normalize"
    /\ Cardinality(names) = 3
    /\ people[3].mother = 1
    /\ people[1].trait = {TRUE} /\ people[3].trait = {FALSE}
    /\ ~IsZero(sumP)

====
